---- MODULE Spec2Model ----
(***************************************************************************)
(* NetLog (PlatformIO/lib/RdNetLog/NetLog.h): a byte-stream log            *)
(* multiplexer.  write() forwards each byte to the serial console,         *)
(* assembles lines, classifies them by their first byte and dispatches     *)
(* completed lines to MQTT, CommandSerial and HTTP; pause()/resume() and   *)
(* service() buffer bytes in a ring buffer while paused.                   *)
(*                                                                         *)
(* Bytes and characters are their ASCII codes, strings are sequences of    *)
(* codes.                                                                  *)
(***************************************************************************)
EXTENDS Integers, Sequences, FiniteSets, TLC

\* ------------------------------------------------------------------ bounds
\* pauseBufferMaxChars given to the constructor (default 1000)
BufLen == 2
\* pauseTimeMs given to the constructor (default 15000), in clock ticks
PauseTimeMs == 1
\* millis() is a uint32_t counter; the model's clock wraps at ClockMod
ClockMod == 4
\* the main loop calls service() at least once every MaxGap clock ticks
MaxGap == 1
\* longest line (bytes before its '\n') the callers of write() produce
MaxLine == 2
\* the same, where the callers produce long lines of one repeated character
MaxLongLine == 252

\* ------------------------------------------------------------------ constants
LOG_LEVEL_SILENT == 0
LOG_LEVEL_FATAL == 1
LOG_LEVEL_ERROR == 2
LOG_LEVEL_WARNING == 3
LOG_LEVEL_NOTICE == 4
LOG_LEVEL_TRACE == 5
LOG_LEVEL_VERBOSE == 6
LOG_LINE_MAXLEN == 250
ASCII_XOFF == 19
ASCII_XON == 17
DefaultHttpPort == 5076
LF == 10
CR == 13

Levels == LOG_LEVEL_SILENT .. LOG_LEVEL_VERBOSE

\* ------------------------------------------------------------------ helpers
Min(a, b) == IF a < b THEN a ELSE b

Prefix(s, n) == SubSeq(s, 1, Min(Len(s), n))

\* String::replace("\n","") followed by String::replace("\r","")
StripEol(s) == SelectSeq(s, LAMBDA c : c # LF /\ c # CR)

\* toupper() on a character code
ToUpper(c) == IF c >= 97 /\ c <= 122 THEN c - 32 ELSE c

\* the switch on the first character of a line / of a level string
LevelOfChar(ch) ==
    CASE ch \in {70, 1} -> LOG_LEVEL_FATAL
      [] ch \in {69, 2} -> LOG_LEVEL_ERROR
      [] ch \in {87, 3} -> LOG_LEVEL_WARNING
      [] ch \in {78, 4} -> LOG_LEVEL_NOTICE
      [] ch \in {84, 5} -> LOG_LEVEL_TRACE
      [] ch \in {86, 6} -> LOG_LEVEL_VERBOSE
      [] OTHER -> LOG_LEVEL_SILENT

\* String(int): decimal digits of a non-negative or negative integer
RECURSIVE DigitsOf(_)
DigitsOf(n) == IF n < 10 THEN <<48 + n>> ELSE Append(DigitsOf(n \div 10), 48 + (n % 10))

IntToStr(n) == IF n < 0 THEN <<45>> \o DigitsOf(0 - n) ELSE DigitsOf(n)

\* atoi() / String::toInt(): skip leading blanks, optional sign, then the
\* leading run of digits; 0 when there is none
IsDigit(c) == c >= 48 /\ c <= 57

RECURSIVE SkipBlanks(_)
SkipBlanks(s) == IF s # <<>> /\ Head(s) \in {32, 9, 10, 13} THEN SkipBlanks(Tail(s)) ELSE s

RECURSIVE DigitRun(_, _)
DigitRun(s, acc) ==
    IF s # <<>> /\ IsDigit(Head(s)) THEN DigitRun(Tail(s), acc * 10 + (Head(s) - 48)) ELSE acc

Atoi(str) ==
    LET s == SkipBlanks(str)
    IN  IF s = <<>> THEN 0
        ELSE IF Head(s) = 45 THEN 0 - DigitRun(Tail(s), 0)
        ELSE IF Head(s) = 43 THEN DigitRun(Tail(s), 0)
        ELSE DigitRun(s, 0)

\* ------------------------------------------------------------------ RingBufferPosn
\* (RdRingBufferPosn.h: cursors and count of a bounded circular buffer)
RingBufferPosn(maxLen) == [putPos |-> 0, getPos |-> 0, count |-> 0, bufLen |-> maxLen]

canPut(p) == p.count < p.bufLen

canGet(p) == p.count > 0

posToPut(p) == p.putPos

posToGet(p) == p.getPos

hasPut(p) == [p EXCEPT !.putPos = (p.putPos + 1) % p.bufLen, !.count = p.count + 1]

hasGot(p) == [p EXCEPT !.getPos = (p.getPos + 1) % p.bufLen, !.count = p.count - 1]

\* Utils::isTimeout(curTime, lastTime, maxDuration) on the wrapping clock
Elapsed(curTime, lastTime) == (curTime - lastTime + ClockMod) % ClockMod

isTimeout(curTime, lastTime, maxDuration) == Elapsed(curTime, lastTime) > maxDuration

\* ------------------------------------------------------------------ write()
\* The state write() works on is a record m:
\*   msgToLog, firstChOnLine, collectLineForLog, curMsgLogLevel : the line assembler
\*   wifiConnected : _wifiClient.connected()
\*   serial, mqtt, cmd, http : what the call handed to Serial, MQTTManager,
\*                             CommandSerial and WiFiClient, in order
\*   retVal : the value returned
\* cfg is the configuration record (see InitCfg below); connOk is the result of
\* _wifiClient.connect().

\* the structured payload {"logLevel":<n>,"logMsg":"<text>"}, newlines removed
StructuredPayload(level, text) ==
    [logLevel |-> level, logMsg |-> SelectSeq(text, LAMBDA c : c # LF)]

\* the HTTP sink were it to connect a second time when the first connect
\* fails: C15 tells it from HttpDispatch
HttpDispatchRetry(m, cfg, connOk) ==
    LET attempt == [stopped |-> m.wifiConnected,
                    connOk |-> connOk,
                    addr |-> cfg.httpIpAddr,
                    port |-> cfg.httpPort,
                    sent |-> IF connOk
                             THEN <<[logCat |-> m.curMsgLogLevel,
                                     eventText |-> StripEol(m.msgToLog),
                                     url |-> cfg.httpLogUrl]>>
                             ELSE <<>>,
                    diag |-> ~connOk /\ cfg.logToSerial /\ cfg.serialPort = 0]
    IN  [m EXCEPT !.wifiConnected = connOk,
                  !.http = IF connOk THEN Append(@, attempt)
                           ELSE Append(Append(@, attempt), [attempt EXCEPT !.stopped = FALSE])]

\* lines 347-373: the HTTP sink
HttpDispatch(m, cfg, connOk) ==
    LET text == StripEol(m.msgToLog)
        attempt == [stopped |-> m.wifiConnected,
                    connOk |-> connOk,
                    addr |-> cfg.httpIpAddr,
                    port |-> cfg.httpPort,
                    sent |-> IF connOk
                             THEN <<[logCat |-> m.curMsgLogLevel, eventText |-> text,
                                     url |-> cfg.httpLogUrl]>>
                             ELSE <<>>,
                    diag |-> ~connOk /\ cfg.logToSerial /\ cfg.serialPort = 0]
    IN  [m EXCEPT !.wifiConnected = connOk, !.http = Append(@, attempt)]

\* lines 338-346: MQTT and CommandSerial
StructuredDispatch(m, cfg) ==
    LET logStr == StructuredPayload(m.curMsgLogLevel, StripEol(m.msgToLog))
    IN  [m EXCEPT !.mqtt = IF cfg.logToMQTT THEN Append(@, logStr) ELSE @,
                  !.cmd = IF cfg.logToCommandSerial THEN Append(@, logStr) ELSE @]

\* EndOfLine were the HTTP sink tried first and a failed connect to end the
\* dispatch: C10 tells it from EndOfLine
EndOfLineHttpFirst(m, cfg, connOk) ==
    LET m1 == IF m.collectLineForLog /\ Len(m.msgToLog) > 0
              THEN LET m2 == IF cfg.logToHTTP THEN HttpDispatch(m, cfg, connOk) ELSE m
                   IN  IF (cfg.logToMQTT \/ cfg.logToCommandSerial)
                          /\ (cfg.logToHTTP => connOk)
                       THEN StructuredDispatch(m2, cfg) ELSE m2
              ELSE m
    IN  [m1 EXCEPT !.firstChOnLine = TRUE,
                   !.msgToLog = IF m.collectLineForLog THEN <<>> ELSE @,
                   !.collectLineForLog = FALSE]

\* lines 327-378: the byte is '\n'
EndOfLine(m, cfg, connOk) ==
    LET m1 == IF m.collectLineForLog /\ Len(m.msgToLog) > 0
              THEN LET m2 == IF cfg.logToMQTT \/ cfg.logToCommandSerial
                             THEN StructuredDispatch(m, cfg) ELSE m
                   IN  IF cfg.logToHTTP THEN HttpDispatch(m2, cfg, connOk) ELSE m2
              ELSE m
    IN  [m1 EXCEPT !.firstChOnLine = TRUE,
                   !.msgToLog = IF m.collectLineForLog THEN <<>> ELSE @,
                   !.collectLineForLog = FALSE]

\* FirstOrCollect were the cap tested with <=: C8 tells it from FirstOrCollect
FirstOrCollectOneMore(m, cfg, ch) ==
    IF m.firstChOnLine
    THEN LET msgLevel == LevelOfChar(ch)
         IN  IF msgLevel <= cfg.loggingThreshold
             THEN [m EXCEPT !.firstChOnLine = FALSE,
                            !.collectLineForLog = TRUE,
                            !.curMsgLogLevel = msgLevel,
                            !.msgToLog = <<ch>>]
             ELSE [m EXCEPT !.firstChOnLine = FALSE]
    ELSE IF m.collectLineForLog /\ Len(m.msgToLog) <= LOG_LINE_MAXLEN
         THEN [m EXCEPT !.msgToLog = Append(@, ch)]
         ELSE m

\* lines 299-325: first character of a line, or one more collected character
FirstOrCollect(m, cfg, ch) ==
    IF m.firstChOnLine
    THEN LET msgLevel == LevelOfChar(ch)
         IN  IF msgLevel <= cfg.loggingThreshold
             THEN [m EXCEPT !.firstChOnLine = FALSE,
                            !.collectLineForLog = TRUE,
                            !.curMsgLogLevel = msgLevel,
                            !.msgToLog = <<ch>>]
             ELSE [m EXCEPT !.firstChOnLine = FALSE]
    ELSE IF m.collectLineForLog /\ Len(m.msgToLog) < LOG_LINE_MAXLEN
         THEN [m EXCEPT !.msgToLog = Append(@, ch)]
         ELSE m

\* lines 295-297: nothing to assemble unless one of the three sinks is on
AnySink(cfg) == cfg.logToMQTT \/ cfg.logToHTTP \/ cfg.logToCommandSerial

\* lines 288-293: the serial console
ToSerial(cfg) == cfg.logToSerial /\ cfg.serialPort = 0

\* lines 288-380: write() when not paused
writeLive(m, cfg, ch, connOk) ==
    LET m1 == [m EXCEPT !.serial = IF ToSerial(cfg) THEN Append(@, ch) ELSE @,
                        !.retVal = IF ToSerial(cfg) THEN 1 ELSE 0]
    IN  IF ~AnySink(cfg) THEN m1
        ELSE LET m2 == FirstOrCollect(m1, cfg, ch)
             IN  IF ch = LF THEN EndOfLine(m2, cfg, connOk) ELSE m2

\* ------------------------------------------------------------------ history
\* Kept beside the program state (in the same record), to state the properties:
\*   line     : the bytes write() has processed since the last '\n' it processed
\*   fixed    : the configuration has not changed since the first of them
\*   atStart  : the assembler was waiting for a first character at the first of them
\*   lines    : one record per '\n' processed during the current operation
\*   replayed : the bytes processed (not buffered) during the current operation
\* conns[i] is the result of the i-th connect of the operation.
LineRecord(st, st2, cfg, ch) ==
    [bytes |-> Append(st.line, ch),
     fixed |-> st.fixed,
     atStart |-> IF st.line = <<>> THEN st.firstChOnLine ELSE st.atStart,
     T |-> cfg.loggingThreshold,
     mq |-> cfg.logToMQTT,
     cs |-> cfg.logToCommandSerial,
     ht |-> cfg.logToHTTP,
     collecting |-> AnySink(cfg) /\ FirstOrCollect(st, cfg, ch).collectLineForLog,
     mqtt |-> SubSeq(st2.mqtt, Len(st.mqtt) + 1, Len(st2.mqtt)),
     cmd |-> SubSeq(st2.cmd, Len(st.cmd) + 1, Len(st2.cmd)),
     http |-> SubSeq(st2.http, Len(st.http) + 1, Len(st2.http))]

Observe(st, st2, cfg, ch) ==
    [st2 EXCEPT !.line = IF ch = LF THEN <<>> ELSE Append(st.line, ch),
                !.fixed = IF ch = LF THEN TRUE ELSE st.fixed,
                !.atStart = IF ch = LF THEN TRUE
                            ELSE IF st.line = <<>> THEN st.firstChOnLine ELSE st.atStart,
                !.lines = IF ch = LF THEN Append(st.lines, LineRecord(st, st2, cfg, ch))
                          ELSE st.lines,
                !.replayed = Append(st.replayed, ch)]

\* ------------------------------------------------------------------ operations
\* writePaused were a full buffer to overwrite its oldest byte: C3 tells it
\* from writePaused
writePausedOverwrite(st, ch) ==
    LET p == st.chBufferPosn
        s1 == IF canPut(p)
              THEN [st EXCEPT !.pChBuffer[posToPut(p)] = ch, !.chBufferPosn = hasPut(@)]
              ELSE [st EXCEPT !.pChBuffer[posToPut(p)] = ch,
                              !.chBufferPosn = [p EXCEPT !.putPos = (p.putPos + 1) % p.bufLen,
                                                         !.getPos = (p.getPos + 1) % p.bufLen]]
    IN  [s1 EXCEPT !.retVal = 0]

\* writePaused were it to put without asking canPut(): C18 tells it from
\* writePaused
writePausedAlways(st, ch) ==
    [st EXCEPT !.pChBuffer[posToPut(st.chBufferPosn)] = ch,
               !.chBufferPosn = hasPut(@),
               !.retVal = 0]

\* writePaused were it to forward the byte to Serial as well: C20 tells it
\* from writePaused
writePausedEcho(st, ch) ==
    LET s1 == IF canPut(st.chBufferPosn)
              THEN [st EXCEPT !.pChBuffer[posToPut(st.chBufferPosn)] = ch,
                              !.chBufferPosn = hasPut(@)]
              ELSE st
    IN  [s1 EXCEPT !.serial = Append(@, ch), !.retVal = 1]

\* lines 276-286: write() while paused
writePaused(st, ch) ==
    LET s1 == IF canPut(st.chBufferPosn)
              THEN [st EXCEPT !.pChBuffer[posToPut(st.chBufferPosn)] = ch,
                              !.chBufferPosn = hasPut(@)]
              ELSE st
    IN  [s1 EXCEPT !.retVal = 0]

\* lines 272-380: write(). (CHOOSE r \in {F(x) : x \in {e}} : TRUE is F(e), with e
\* evaluated once.)
write(st, cfg, ch, conns) ==
    IF st.isPaused
    THEN writePaused(st, ch)
    ELSE CHOOSE r \in {Observe(st, st2, cfg, ch) :
                          st2 \in {writeLive(st, cfg, ch,
                                              conns[Min(Len(st.http) + 1, Len(conns))])}} : TRUE

\* handleLoggedDuringPause were it to empty the buffer without writing its
\* bytes: C2 tells it from handleLoggedDuringPause
handleLoggedDuringPauseDiscard(st, cfg, conns) ==
    [st EXCEPT !.chBufferPosn = [getPos |-> @.putPos, putPos |-> @.putPos,
                                 count |-> 0, bufLen |-> @.bufLen]]

\* handleLoggedDuringPause were it to replay one byte only: C19 tells it from
\* handleLoggedDuringPause
handleLoggedDuringPauseOne(st, cfg, conns) ==
    IF canGet(st.chBufferPosn)
    THEN [write(st, cfg, st.pChBuffer[posToGet(st.chBufferPosn)], conns)
             EXCEPT !.chBufferPosn = hasGot(@)]
    ELSE st

\* lines 424-432: handleLoggedDuringPause()
RECURSIVE handleLoggedDuringPause(_, _, _)
handleLoggedDuringPause(st, cfg, conns) ==
    IF canGet(st.chBufferPosn)
    THEN CHOOSE r \in {handleLoggedDuringPause([s1 EXCEPT !.chBufferPosn = hasGot(@)],
                                                cfg, conns) :
                          s1 \in {write(st, cfg, st.pChBuffer[posToGet(st.chBufferPosn)],
                                        conns)}} : TRUE
    ELSE st

\* lines 257-261: pause()
pause(st, millis) == [st EXCEPT !.isPaused = TRUE, !.pauseStartedMs = millis]

\* lines 263-270: resume()
resume(st, cfg, conns) ==
    IF st.isPaused
    THEN handleLoggedDuringPause([st EXCEPT !.isPaused = FALSE], cfg, conns)
    ELSE st

\* service() without the pause timeout: C4 tells it from service
serviceNoTimeout(st, cfg, millis, xonXoffChar, conns) ==
    IF xonXoffChar = ASCII_XOFF THEN pause(st, millis)
    ELSE IF xonXoffChar = ASCII_XON THEN resume(st, cfg, conns)
    ELSE st

\* service() were the timeout one millisecond longer: C5 tells it from service
serviceLate(st, cfg, millis, xonXoffChar, conns) ==
    LET s1 == IF xonXoffChar = ASCII_XOFF THEN pause(st, millis)
              ELSE IF xonXoffChar = ASCII_XON THEN resume(st, cfg, conns)
              ELSE st
    IN  IF s1.isPaused /\ isTimeout(millis, s1.pauseStartedMs, PauseTimeMs + 1)
        THEN handleLoggedDuringPause([s1 EXCEPT !.isPaused = FALSE], cfg, conns)
        ELSE s1

\* service() were it to take no notice of XON: C17 tells it from service
serviceXonIgnored(st, cfg, millis, xonXoffChar, conns) ==
    LET s1 == IF xonXoffChar = ASCII_XOFF THEN pause(st, millis) ELSE st
    IN  IF s1.isPaused /\ isTimeout(millis, s1.pauseStartedMs, PauseTimeMs)
        THEN handleLoggedDuringPause([s1 EXCEPT !.isPaused = FALSE], cfg, conns)
        ELSE s1

\* lines 382-421: service(); the bytes it reads from the socket are discarded
service(st, cfg, millis, xonXoffChar, conns) ==
    LET s1 == IF xonXoffChar = ASCII_XOFF THEN pause(st, millis)
              ELSE IF xonXoffChar = ASCII_XON THEN resume(st, cfg, conns)
              ELSE st
    IN  IF s1.isPaused /\ isTimeout(millis, s1.pauseStartedMs, PauseTimeMs)
        THEN handleLoggedDuringPause([s1 EXCEPT !.isPaused = FALSE], cfg, conns)
        ELSE s1

\* ------------------------------------------------------------------ configuration
\* the ten keys, as character codes
KeyLogLevel == <<76, 111, 103, 76, 101, 118, 101, 108>>

KeyMQTTFlag == <<77, 81, 84, 84, 70, 108, 97, 103>>

KeyMQTTTopic == <<77, 81, 84, 84, 84, 111, 112, 105, 99>>

KeyHTTPFlag == <<72, 84, 84, 80, 70, 108, 97, 103>>

KeyHTTPAddr == <<72, 84, 84, 80, 65, 100, 100, 114>>

KeyHTTPPort == <<72, 84, 84, 80, 80, 111, 114, 116>>

KeyHTTPUrl == <<72, 84, 84, 80, 85, 114, 108>>

KeySerialFlag == <<83, 101, 114, 105, 97, 108, 70, 108, 97, 103>>

KeySerialPort == <<83, 101, 114, 105, 97, 108, 80, 111, 114, 116>>

KeyCmdSerial == <<67, 109, 100, 83, 101, 114, 105, 97, 108>>

\* "key":"value"
KeyValue(key, value) == <<34>> \o key \o <<34, 58, 34>> \o value \o <<34>>

\* lines 241-255: formConfigStr(): the text {"LogLevel":"<n>","MQTTFlag":"<n>",
\* ...,"CmdSerial":"<n>"}; the strings are copied into it as they are
formConfigStr(cfg) ==
    <<123>>
    \o KeyValue(KeyLogLevel, IntToStr(cfg.loggingThreshold)) \o <<44>>
    \o KeyValue(KeyMQTTFlag, IntToStr(IF cfg.logToMQTT THEN 1 ELSE 0)) \o <<44>>
    \o KeyValue(KeyMQTTTopic, cfg.mqttLogTopic) \o <<44>>
    \o KeyValue(KeyHTTPFlag, IntToStr(IF cfg.logToHTTP THEN 1 ELSE 0)) \o <<44>>
    \o KeyValue(KeyHTTPAddr, cfg.httpIpAddr) \o <<44>>
    \o KeyValue(KeyHTTPPort, IntToStr(cfg.httpPort)) \o <<44>>
    \o KeyValue(KeyHTTPUrl, cfg.httpLogUrl) \o <<44>>
    \o KeyValue(KeySerialFlag, IntToStr(IF cfg.logToSerial THEN 1 ELSE 0)) \o <<44>>
    \o KeyValue(KeySerialPort, IntToStr(cfg.serialPort)) \o <<44>>
    \o KeyValue(KeyCmdSerial, IntToStr(IF cfg.logToCommandSerial THEN 1 ELSE 0))
    \o <<125>>

\* ConfigBase (not in this source): the record is a text, and the value of a
\* key is what stands between "key":" and the next double quote. 0 when the
\* text has no "key":"
Least(S) == CHOOSE m \in S : \A n \in S : m <= n

\* the position after the first "key":" of the text; 0 when there is none
AfterKey(text, key) ==
    LET pat == <<34>> \o key \o <<34, 58, 34>>
        hits == {i \in 1 .. Len(text) - Len(pat) + 1 : SubSeq(text, i, i + Len(pat) - 1) = pat}
    IN  IF hits = {} THEN 0 ELSE Least(hits) + Len(pat)

\* the text from position i up to the next double quote
UpToQuote(text, i) ==
    LET quotes == {j \in i .. Len(text) : text[j] = 34}
    IN  SubSeq(text, i, IF quotes = {} THEN Len(text) ELSE Least(quotes) - 1)

HasKey(text, key) == AfterKey(text, key) # 0

ValueOf(text, key) == UpToQuote(text, AfterKey(text, key))

getString(text, key, default) == IF HasKey(text, key) THEN ValueOf(text, key) ELSE default

getLong(text, key, default) == IF HasKey(text, key) THEN Atoi(ValueOf(text, key)) ELSE default

\* setConfigData(formConfigStr()) and writeConfig(), when a ConfigBase is set
Persist(cfg, dataChanged) ==
    IF dataChanged /\ cfg.pConfigBase THEN <<formConfigStr(cfg)>> ELSE <<>>

FirstChar(str) == IF str = <<>> THEN 0 ELSE Head(str)

\* lines 91-123: setLogLevel(); the result is the new configuration, the
\* records persisted and the diagnostic printed on Serial
setLogLevel(cfg, logLevelStr) ==
    LET logLevel == LevelOfChar(ToUpper(FirstChar(logLevelStr)))
        logLevelChanged == cfg.loggingThreshold # logLevel
        c2 == [cfg EXCEPT !.loggingThreshold = logLevel]
    IN  [cfg |-> c2,
         persisted |-> Persist(c2, logLevelChanged),
         diag |-> IF ToSerial(c2)
                  THEN <<IF logLevelChanged THEN "LogLevel set" ELSE "LogLevel unchanged">>
                  ELSE <<>>]

\* setMQTT() were it to persist before it applies the new values: C16 tells
\* it from setMQTT
setMQTTStale(cfg, mqttFlag, mqttLogTopic) ==
    LET dataChanged == cfg.logToMQTT # mqttFlag \/ cfg.mqttLogTopic # mqttLogTopic
        c2 == [cfg EXCEPT !.logToMQTT = mqttFlag, !.mqttLogTopic = mqttLogTopic]
    IN  [cfg |-> c2, persisted |-> Persist(cfg, dataChanged), diag |-> <<>>]

\* lines 125-140: setMQTT()
setMQTT(cfg, mqttFlag, mqttLogTopic) ==
    LET dataChanged == cfg.logToMQTT # mqttFlag \/ cfg.mqttLogTopic # mqttLogTopic
        c2 == [cfg EXCEPT !.logToMQTT = mqttFlag, !.mqttLogTopic = mqttLogTopic]
    IN  [cfg |-> c2, persisted |-> Persist(c2, dataChanged), diag |-> <<>>]

\* lines 142-157: setSerial()
setSerial(cfg, onOffFlag, serialPortStr) ==
    LET dataChanged == cfg.logToSerial # onOffFlag
                       \/ IntToStr(cfg.serialPort) # serialPortStr
        c2 == [cfg EXCEPT !.logToSerial = onOffFlag, !.serialPort = Atoi(serialPortStr)]
    IN  [cfg |-> c2, persisted |-> Persist(c2, dataChanged), diag |-> <<>>]

\* lines 159-173: setCmdSerial()
setCmdSerial(cfg, onOffFlag) ==
    LET dataChanged == cfg.logToCommandSerial # onOffFlag
        c2 == [cfg EXCEPT !.logToCommandSerial = onOffFlag]
    IN  [cfg |-> c2, persisted |-> Persist(c2, dataChanged), diag |-> <<>>]

\* lines 175-207: setHTTP()
setHTTP(cfg, httpFlag, ipAddr, portStr, httpLogUrl) ==
    LET ipAddrValidated == IF Len(ipAddr) = 0 THEN cfg.httpIpAddr ELSE ipAddr
        portValidated == IF Len(portStr) = 0 THEN cfg.httpPort ELSE Atoi(portStr)
        httpLogUrlValidated == IF Len(httpLogUrl) = 0 THEN cfg.httpLogUrl ELSE httpLogUrl
        dataChanged == cfg.logToHTTP # httpFlag
                       \/ cfg.httpLogUrl # httpLogUrlValidated
                       \/ cfg.httpIpAddr # ipAddrValidated
                       \/ cfg.httpPort # portValidated
        c2 == [cfg EXCEPT !.logToHTTP = httpFlag,
                          !.httpIpAddr = ipAddrValidated,
                          !.httpPort = portValidated,
                          !.httpLogUrl = httpLogUrlValidated]
    IN  [cfg |-> c2,
         persisted |-> Persist(c2, dataChanged),
         diag |-> IF ~dataChanged /\ ToSerial(c2) THEN <<"Config data unchanged">> ELSE <<>>]

\* lines 209-239: setup(); pConfig is [null, data]: a NULL pointer, or a
\* ConfigBase holding the text data
setup(cfg, pConfig) ==
    IF pConfig.null THEN [cfg EXCEPT !.pConfigBase = FALSE]
    ELSE [loggingThreshold |-> getLong(pConfig.data, KeyLogLevel, LOG_LEVEL_SILENT),
          logToMQTT |-> getLong(pConfig.data, KeyMQTTFlag, 0) # 0,
          mqttLogTopic |-> getString(pConfig.data, KeyMQTTTopic, <<>>),
          logToHTTP |-> getLong(pConfig.data, KeyHTTPFlag, 0) # 0,
          httpIpAddr |-> getString(pConfig.data, KeyHTTPAddr, <<>>),
          httpPort |-> getLong(pConfig.data, KeyHTTPPort, DefaultHttpPort),
          httpLogUrl |-> getString(pConfig.data, KeyHTTPUrl, <<>>),
          logToSerial |-> getLong(pConfig.data, KeySerialFlag, 1) # 0,
          serialPort |-> getLong(pConfig.data, KeySerialPort, 0),
          logToCommandSerial |-> getLong(pConfig.data, KeyCmdSerial, 0) # 0,
          pConfigBase |-> TRUE]

\* ------------------------------------------------------------------ state
VARIABLES
    cfg,          \* the configuration fields and _pConfigBase (TRUE: not NULL)
    st,           \* assembler, TCP client, pause state and ring buffer; the sinks'
                  \* input and the history of the current operation
    millis,       \* the clock millis() reads
    sinceService, \* clock ticks since the last service()
    op,           \* the last operation: its name, argument and results
    pausedBytes,  \* the bytes given to write() since the pause began
    shadow,       \* the state had those bytes been written with no pause
    cfgChanged    \* the configuration changed since the pause began

vars == <<cfg, st, millis, sinceService, op, pausedBytes, shadow, cfgChanged>>

\* lines 66-89: the constructor
InitCfg ==
    [loggingThreshold |-> LOG_LEVEL_SILENT,
     logToMQTT |-> FALSE,
     mqttLogTopic |-> <<>>,
     logToHTTP |-> FALSE,
     httpIpAddr |-> <<>>,
     httpPort |-> DefaultHttpPort,
     httpLogUrl |-> <<>>,
     logToSerial |-> TRUE,
     serialPort |-> 0,
     logToCommandSerial |-> FALSE,
     pConfigBase |-> FALSE]

InitSt ==
    [msgToLog |-> <<>>,
     firstChOnLine |-> TRUE,
     collectLineForLog |-> FALSE,
     curMsgLogLevel |-> LOG_LEVEL_SILENT,
     wifiConnected |-> FALSE,
     isPaused |-> FALSE,
     pauseStartedMs |-> 0,
     pChBuffer |-> [i \in 0 .. BufLen - 1 |-> 0],
     chBufferPosn |-> RingBufferPosn(BufLen),
     serial |-> <<>>, mqtt |-> <<>>, cmd |-> <<>>, http |-> <<>>, retVal |-> 0,
     line |-> <<>>, fixed |-> TRUE, atStart |-> TRUE, lines |-> <<>>, replayed |-> <<>>]

\* the last operation: its name and byte argument, whether the logger was
\* paused before it, whether it changed the configuration, the texts it gave
\* to setConfigData(), its diagnostics, and the text setup() loaded
NoOp ==
    [name |-> "init", ch |-> 0, wasPaused |-> FALSE, changed |-> FALSE,
     persisted |-> <<>>, diag |-> <<>>, loaded |-> <<>>]

Init ==
    /\ cfg = InitCfg
    /\ st = InitSt
    /\ millis = 0
    /\ sinceService = 0
    /\ op = NoOp
    /\ pausedBytes = <<>>
    /\ shadow = InitSt
    /\ cfgChanged = FALSE

\* what the previous operation handed to the sinks is forgotten
ClearOut(s) ==
    [s EXCEPT !.serial = <<>>, !.mqtt = <<>>, !.cmd = <<>>, !.http = <<>>,
              !.lines = <<>>, !.replayed = <<>>]

\* every connect of the operation succeeds
ConnsOk == [i \in 1 .. BufLen |-> TRUE]

\* s as it would be had pause() not been called: not paused, nothing buffered
Unpaused(s) ==
    [s EXCEPT !.isPaused = FALSE,
              !.pauseStartedMs = InitSt.pauseStartedMs,
              !.pChBuffer = InitSt.pChBuffer,
              !.chBufferPosn = InitSt.chBufferPosn]

\* the pause history after an operation that took st to s2 and wrote bytes
\* (a sequence) while paused
PauseHistory(s2, bytes, changed) ==
    /\ pausedBytes' = IF st.isPaused THEN pausedBytes \o bytes ELSE <<>>
    /\ cfgChanged' = IF st.isPaused THEN cfgChanged \/ changed ELSE FALSE
    /\ shadow' = IF st.isPaused
                 THEN IF bytes = <<>> THEN shadow
                      ELSE write(shadow, cfg, bytes[1], <<TRUE>>)
                 ELSE IF s2.isPaused THEN Unpaused(s2) ELSE InitSt

\* ------------------------------------------------------------------ actions
\* write(ch); the callers' lines have at most maxLine bytes before the '\n',
\* at most BufLen + 1 bytes are written during one pause, and no byte but
\* '\n' is written once the message holds more than a whole line
Write(ch, connOk, maxLine) ==
    /\ LET s == IF st.isPaused THEN shadow ELSE st
       IN  ch = LF \/ (Len(s.line) < maxLine /\ Len(s.msgToLog) <= maxLine)
    /\ st.isPaused => Len(pausedBytes) <= BufLen
    /\ st' = write(ClearOut(st), cfg, ch, <<connOk>>)
    /\ op' = [NoOp EXCEPT !.name = "write", !.ch = ch, !.wasPaused = st.isPaused]
    /\ PauseHistory(st', <<ch>>, FALSE)
    /\ UNCHANGED <<cfg, millis, sinceService>>

Pause ==
    /\ st' = pause(ClearOut(st), millis)
    /\ op' = [NoOp EXCEPT !.name = "pause", !.wasPaused = st.isPaused]
    /\ PauseHistory(st', <<>>, FALSE)
    /\ UNCHANGED <<cfg, millis, sinceService>>

Resume(conns) ==
    /\ st' = resume(ClearOut(st), cfg, conns)
    /\ op' = [NoOp EXCEPT !.name = "resume", !.wasPaused = st.isPaused]
    /\ PauseHistory(st', <<>>, FALSE)
    /\ UNCHANGED <<cfg, millis, sinceService>>

Service(xonXoffChar, conns) ==
    /\ st' = service(ClearOut(st), cfg, millis, xonXoffChar, conns)
    /\ op' = [NoOp EXCEPT !.name = "service", !.ch = xonXoffChar, !.wasPaused = st.isPaused]
    /\ PauseHistory(st', <<>>, FALSE)
    /\ sinceService' = 0
    /\ UNCHANGED <<cfg, millis>>

\* one millisecond passes
Tick ==
    /\ sinceService < MaxGap
    /\ millis' = (millis + 1) % ClockMod
    /\ sinceService' = sinceService + 1
    /\ op' = [NoOp EXCEPT !.name = "tick", !.wasPaused = st.isPaused]
    /\ st' = ClearOut(st)
    /\ PauseHistory(st', <<>>, FALSE)
    /\ UNCHANGED cfg

\* the peer closes the TCP connection (the request says Connection: close)
ConnClosed ==
    /\ st.wifiConnected
    /\ st' = [ClearOut(st) EXCEPT !.wifiConnected = FALSE]
    /\ op' = [NoOp EXCEPT !.name = "closed", !.wasPaused = st.isPaused]
    /\ PauseHistory(st', <<>>, FALSE)
    /\ UNCHANGED <<cfg, millis, sinceService>>

\* a setter call with result r
Setter(name, r) ==
    /\ cfg' = r.cfg
    /\ st' = [ClearOut(st) EXCEPT !.fixed = IF r.cfg # cfg /\ st.line # <<>> THEN FALSE ELSE @]
    /\ op' = [NoOp EXCEPT !.name = name, !.wasPaused = st.isPaused,
                          !.changed = r.cfg # cfg,
                          !.persisted = r.persisted, !.diag = r.diag]
    /\ PauseHistory(st', <<>>, r.cfg # cfg)
    /\ UNCHANGED <<millis, sinceService>>

SetLogLevel(logLevelStr) == Setter("setLogLevel", setLogLevel(cfg, logLevelStr))

SetMQTT(mqttFlag, mqttLogTopic) == Setter("setMQTT", setMQTT(cfg, mqttFlag, mqttLogTopic))

SetSerial(onOffFlag, serialPortStr) ==
    Setter("setSerial", setSerial(cfg, onOffFlag, serialPortStr))

SetCmdSerial(onOffFlag) == Setter("setCmdSerial", setCmdSerial(cfg, onOffFlag))

SetHTTP(httpFlag, ipAddr, portStr, httpLogUrl) ==
    Setter("setHTTP", setHTTP(cfg, httpFlag, ipAddr, portStr, httpLogUrl))

\* setup(pConfig, systemName)
Setup(pConfig) ==
    /\ cfg' = setup(cfg, pConfig)
    /\ st' = [ClearOut(st) EXCEPT !.fixed = IF cfg' # cfg /\ st.line # <<>> THEN FALSE ELSE @]
    /\ op' = [NoOp EXCEPT !.name = "setup", !.wasPaused = st.isPaused,
                          !.changed = cfg' # cfg,
                          !.loaded = IF pConfig.null THEN <<>> ELSE pConfig.data,
                          !.diag = IF ~pConfig.null /\ ToSerial(cfg) THEN <<"Setup from">>
                                   ELSE <<>>]
    /\ PauseHistory(st', <<>>, cfg' # cfg)
    /\ UNCHANGED <<millis, sinceService>>

\* the device restarts: a new NetLog is constructed and setup() is given a
\* ConfigBase that holds what formConfigStr() gave before the restart
Restart ==
    /\ cfg' = setup(InitCfg, [null |-> FALSE, data |-> formConfigStr(cfg)])
    /\ st' = InitSt
    /\ op' = [NoOp EXCEPT !.name = "restart", !.wasPaused = st.isPaused,
                          !.changed = cfg' # cfg,
                          !.loaded = formConfigStr(cfg)]
    /\ pausedBytes' = <<>>
    /\ shadow' = InitSt
    /\ cfgChanged' = FALSE
    /\ UNCHANGED <<millis, sinceService>>

\* ------------------------------------------------------------------ specifications
\* Spec: line assembly and dispatch under configuration changes.
\* 'E', 'x', '\n'
Bytes == {69, 120, LF}

\* "N", ""
LevelStrs == {<<78>>, <<>>}

ControlChars == {0, ASCII_XOFF, ASCII_XON}

Next ==
    \/ \E ch \in Bytes, connOk \in BOOLEAN : Write(ch, connOk, MaxLine)
    \/ ConnClosed
    \/ \E s \in LevelStrs : SetLogLevel(s)
    \/ \E f \in BOOLEAN : SetMQTT(f, <<>>)
    \/ \E f \in BOOLEAN : SetSerial(f, <<48>>)
    \/ \E f \in BOOLEAN : SetCmdSerial(f)
    \/ \E f \in BOOLEAN : SetHTTP(f, <<>>, <<>>, <<>>)

Spec == Init /\ [][Next]_vars

\* SpecFlow: pause, resume and the control bytes, the clock standing still.
\* 'x', '\n'
FlowBytes == {120, LF}

NextFlow ==
    \/ \E ch \in FlowBytes : Write(ch, TRUE, MaxLine)
    \/ Pause
    \/ Resume(ConnsOk)
    \/ \E x \in {ASCII_XOFF, ASCII_XON} : Service(x, ConnsOk)
    \/ \E f \in BOOLEAN : SetMQTT(f, <<>>)

SpecFlow == Init /\ [][NextFlow]_vars

\* SpecTime: the pause timeout; bytes are written while paused only.
NextTime ==
    \/ \E ch \in FlowBytes : st.isPaused /\ Write(ch, TRUE, MaxLine)
    \/ Pause
    \/ Resume(ConnsOk)
    \/ \E x \in ControlChars : Service(x, ConnsOk)
    \/ Tick

SpecTime == Init /\ [][NextTime]_vars

\* SpecLive: the pause timeout, when the main loop keeps calling service()
\* and the clock keeps advancing; every byte written is '\n'.
NextLive ==
    \/ ~st.isPaused /\ Write(LF, TRUE, MaxLine)
    \/ Pause
    \/ Resume(ConnsOk)
    \/ \E x \in ControlChars : Service(x, ConnsOk)
    \/ Tick
    \/ \E f \in BOOLEAN : SetCmdSerial(f)

SpecLive ==
    /\ Init
    /\ [][NextLive]_vars
    /\ WF_vars(Tick)
    /\ WF_vars(Service(0, ConnsOk))

\* SpecLong: write() on long lines, under each configuration of the
\* threshold and the MQTT and HTTP flags.  A line is one first byte among
\* 'E', 'x', '\r', then 'x' repeated.
LongCfgs ==
    {[InitCfg EXCEPT !.loggingThreshold = t, !.logToMQTT = mq, !.logToHTTP = ht] :
        t \in {LOG_LEVEL_SILENT, LOG_LEVEL_NOTICE}, mq \in BOOLEAN, ht \in BOOLEAN}

InitLong ==
    /\ cfg \in LongCfgs
    /\ st = InitSt
    /\ millis = 0
    /\ sinceService = 0
    /\ op = NoOp
    /\ pausedBytes = <<>>
    /\ shadow = InitSt
    /\ cfgChanged = FALSE

NextLong ==
    \E ch \in {69, 120, CR, LF}, connOk \in BOOLEAN :
        /\ ch \in {120, LF} \/ st.line = <<>>
        /\ Write(ch, connOk, MaxLongLine)

SpecLong == InitLong /\ [][NextLong]_vars

\* ------------------------------------------------------------------ properties
LevelLetters == {70, 69, 87, 78, 84, 86}

Delivered(r) == r.mqtt # <<>> \/ r.cmd # <<>> \/ r.http # <<>>

LinesOfOp == {st.lines[i] : i \in 1 .. Len(st.lines)}

\* C1: a line processed under one configuration, with first byte of severity S
\* and threshold T, goes to MQTT iff S <= T and MQTT is on, and to
\* CommandSerial iff S <= T and CommandSerial is on.
C1_DeliveredIffWithinThreshold ==
    \A r \in LinesOfOp :
        r.fixed =>
            /\ (r.mqtt # <<>>) <=> (LevelOfChar(r.bytes[1]) <= r.T /\ r.mq)
            /\ (r.cmd # <<>>) <=> (LevelOfChar(r.bytes[1]) <= r.T /\ r.cs)

\* the same for the lines at whose first byte the assembler was at a line start
C1_FromLineStart ==
    \A r \in LinesOfOp :
        r.fixed /\ r.atStart =>
            /\ (r.mqtt # <<>>) <=> (LevelOfChar(r.bytes[1]) <= r.T /\ r.mq)
            /\ (r.cmd # <<>>) <=> (LevelOfChar(r.bytes[1]) <= r.T /\ r.cs)

\* C6: every byte written while not paused goes to the primary output once,
\* whatever the configuration.
C6_EveryByteForwarded ==
    op.name = "write" /\ ~op.wasPaused => st.serial = <<op.ch>>

\* C7: a line whose first byte is none of F, E, W, N, T, V reaches no sink.
C7_SilentLineNotDispatched ==
    \A r \in LinesOfOp : r.bytes[1] \notin LevelLetters => ~Delivered(r)

\* C9: a line that is empty once its line-ending characters are stripped
\* reaches no sink.
C9_EmptyLineNotDispatched ==
    \A r \in LinesOfOp : StripEol(r.bytes) = <<>> => ~Delivered(r)

\* C10: a completed line the assembler collected goes to MQTT exactly once if
\* MQTT is on and not otherwise, and likewise to CommandSerial, whether HTTP
\* is off, connects or fails to connect; a line it did not collect goes nowhere.
C10_StructuredIndependentOfHttp ==
    \A r \in LinesOfOp :
        /\ Len(r.mqtt) = IF r.collecting /\ r.mq THEN 1 ELSE 0
        /\ Len(r.cmd) = IF r.collecting /\ r.cs THEN 1 ELSE 0
        /\ Len(r.http) = IF r.collecting /\ r.ht THEN 1 ELSE 0

\* a line reached MQTT and CommandSerial although the HTTP connect failed
C10_Witness ==
    \E r \in LinesOfOp :
        /\ r.ht /\ r.http # <<>> /\ ~r.http[1].connOk
        /\ r.mq /\ r.cs /\ Len(r.mqtt) = 1 /\ Len(r.cmd) = 1

\* ------------------------------------------------------------------ pause properties
\* the bytes in the ring buffer, oldest first
BufferContents(s) ==
    [i \in 1 .. s.chBufferPosn.count |->
        s.pChBuffer[(s.chBufferPosn.getPos + i - 1) % s.chBufferPosn.bufLen]]

\* the last operation ended the pause
Resumed == op.wasPaused /\ ~st.isPaused

\* what a processed line was and where it went
LineView(r) == [bytes |-> r.bytes, mqtt |-> r.mqtt, cmd |-> r.cmd, http |-> Len(r.http)]

Views(s) == [i \in 1 .. Len(s.lines) |-> LineView(s.lines[i])]

Assembler(s) ==
    <<s.msgToLog, s.firstChOnLine, s.collectLineForLog, s.curMsgLogLevel, s.line>>

SameAsUnpaused ==
    /\ Views(st) = Views(shadow)
    /\ st.mqtt = shadow.mqtt
    /\ st.cmd = shadow.cmd
    /\ st.serial = shadow.serial
    /\ st.replayed = pausedBytes
    /\ Assembler(st) = Assembler(shadow)

\* C2: when a pause ends, no more than the buffer's capacity having been
\* written during it and the configuration unchanged, the lines dispatched and
\* the assembler are what they would be had the same bytes been written with
\* no pause.
C2_PauseTransparent ==
    Resumed /\ ~cfgChanged /\ Len(pausedBytes) <= BufLen => SameAsUnpaused

\* a pause that began in the middle of a line ended, and the line was dispatched
C2_Witness ==
    /\ Resumed /\ ~cfgChanged /\ Len(pausedBytes) <= BufLen
    /\ \E r \in LinesOfOp : r.mqtt # <<>> /\ Len(r.bytes) > Len(pausedBytes)

\* the same with no condition on the bytes written and the configuration
C2_Unconditional == Resumed => SameAsUnpaused

\* C3: while paused the buffer holds the first BufLen bytes written since the
\* pause began, in order; the operation that ends the pause replays exactly
\* those, once each and in order, and leaves the buffer empty.
C3_OldestRetained ==
    /\ st.isPaused => BufferContents(st) = Prefix(pausedBytes, BufLen)
    /\ Resumed => /\ st.replayed = Prefix(pausedBytes, BufLen)
                  /\ st.chBufferPosn.count = 0

\* more than BufLen bytes were written, the dropped one unlike the first
C3_Witness ==
    /\ Resumed
    /\ Len(pausedBytes) > BufLen
    /\ pausedBytes[BufLen + 1] # pausedBytes[1]
    /\ st.replayed = Prefix(pausedBytes, BufLen)

\* C4 as stated: a paused state is always followed by an un-paused one.
C4_AlwaysUnpauses == st.isPaused ~> ~st.isPaused

PauseCall == op.name = "pause" \/ (op.name = "service" /\ op.ch = ASCII_XOFF)

\* C4: a paused state is followed by an un-paused one or by another pause()
\* or XOFF: once those stop arriving the pause ends, whatever else arrives.
C4_UnpausesUnlessPausedAgain == st.isPaused ~> (~st.isPaused \/ PauseCall)

\* a service() without control byte ended a pause
C4_Witness == op.name = "service" /\ op.ch = 0 /\ Resumed

\* C5: a service() that finds the system paused (or pauses it) ends the pause,
\* replays the buffer in order and leaves it empty if more than PauseTimeMs has
\* passed since the pause was started; otherwise, unless its byte is XON, the
\* system stays paused and the buffer is untouched.
C5_TimeoutResumes ==
    op.name = "service" /\ (op.wasPaused \/ op.ch = ASCII_XOFF) =>
        IF Elapsed(millis, st.pauseStartedMs) > PauseTimeMs
        THEN /\ ~st.isPaused
             /\ st.chBufferPosn.count = 0
             /\ st.replayed = Prefix(pausedBytes, BufLen)
        ELSE op.ch # ASCII_XON =>
                /\ st.isPaused
                /\ st.replayed = <<>>
                /\ BufferContents(st) = Prefix(pausedBytes, BufLen)

\* the timeout replayed a full buffer of two unlike bytes
C5_Witness ==
    /\ op.name = "service" /\ op.ch = 0 /\ Resumed
    /\ Len(st.replayed) = BufLen
    /\ st.replayed[1] # st.replayed[2]

\* ------------------------------------------------------------------ long lines
\* the texts handed to the sinks for a line
TextsOf(r) ==
    {r.mqtt[i].logMsg : i \in 1 .. Len(r.mqtt)}
    \cup {r.cmd[i].logMsg : i \in 1 .. Len(r.cmd)}
    \cup UNION {{r.http[i].sent[j].eventText : j \in 1 .. Len(r.http[i].sent)} :
                    i \in 1 .. Len(r.http)}

LongLine(r) == r.collecting /\ Len(r.bytes) - 1 > LOG_LINE_MAXLEN

\* C8 as stated: the text never exceeds 250 characters, and a collected line
\* of more than 250 characters is dispatched as exactly its first 250.
C8_TruncatedToFirst250 ==
    /\ Len(st.msgToLog) <= LOG_LINE_MAXLEN
    /\ \A r \in LinesOfOp :
          LongLine(r) =>
              /\ Delivered(r)
              /\ TextsOf(r) \subseteq {SubSeq(r.bytes, 1, LOG_LINE_MAXLEN)}

\* C8: ... is dispatched as its first 250 characters less the '\r' among them.
C8_TruncatedThenStripped ==
    /\ Len(st.msgToLog) <= LOG_LINE_MAXLEN
    /\ \A r \in LinesOfOp :
          LongLine(r) =>
              /\ Delivered(r)
              /\ TextsOf(r) \subseteq {StripEol(SubSeq(r.bytes, 1, LOG_LINE_MAXLEN))}

\* a line of more than 250 characters went to MQTT with 250 characters
C8_Witness ==
    \E r \in LinesOfOp :
        LongLine(r) /\ r.mqtt # <<>> /\ Len(r.mqtt[1].logMsg) = LOG_LINE_MAXLEN

\* ------------------------------------------------------------------ line assembly
\* C13: after write('\n') made while not paused, the assembler awaits the first
\* byte of a line, is not collecting and holds no text.
C13_TerminatorResets ==
    op.name = "write" /\ ~op.wasPaused /\ op.ch = LF =>
        st.firstChOnLine /\ ~st.collectLineForLog /\ st.msgToLog = <<>>

\* the severities handed to the sinks for a line
LevelsOf(r) ==
    {r.mqtt[i].logLevel : i \in 1 .. Len(r.mqtt)}
    \cup {r.cmd[i].logLevel : i \in 1 .. Len(r.cmd)}
    \cup UNION {{r.http[i].sent[j].logCat : j \in 1 .. Len(r.http[i].sent)} :
                    i \in 1 .. Len(r.http)}

\* C14: what is dispatched at a '\n' is built from the bytes written since the
\* '\n' before it: the text is a prefix of them, line-ending characters
\* removed, and the severity is that of the first of them.
C14_OneInputLinePerDispatch ==
    \A r \in LinesOfOp :
        /\ TextsOf(r) \subseteq {StripEol(SubSeq(r.bytes, 1, k)) : k \in 1 .. Len(r.bytes)}
        /\ LevelsOf(r) \subseteq {LevelOfChar(r.bytes[1])}

\* ------------------------------------------------------------------ flow control
\* C17: service(XOFF) leaves the logger paused with the pause started now;
\* service(XON) leaves it un-paused with the buffer empty, everything buffered
\* replayed in order if it was paused and nothing replayed if it was not;
\* service() with any other byte leaves it paused exactly if it was paused and
\* the pause has not timed out.
C17_ControlBytes ==
    op.name = "service" =>
        /\ op.ch = ASCII_XOFF =>
              st.isPaused /\ st.pauseStartedMs = millis /\ st.replayed = <<>>
        /\ op.ch = ASCII_XON =>
              /\ ~st.isPaused
              /\ st.chBufferPosn.count = 0
              /\ st.replayed = IF op.wasPaused THEN Prefix(pausedBytes, BufLen) ELSE <<>>
        /\ op.ch \notin {ASCII_XOFF, ASCII_XON} =>
              st.isPaused = (op.wasPaused
                             /\ ~(Elapsed(millis, st.pauseStartedMs) > PauseTimeMs))

\* XON ended a pause that had not timed out and a full buffer was replayed
C17_Witness ==
    /\ op.name = "service" /\ op.ch = ASCII_XON /\ op.wasPaused
    /\ Elapsed(millis, st.pauseStartedMs) <= PauseTimeMs
    /\ Len(st.replayed) = BufLen

\* C18: the buffer holds between 0 and BufLen bytes and its cursors are
\* inside it.
C18_BufferBound ==
    LET p == st.chBufferPosn
    IN  /\ p.bufLen = BufLen
        /\ p.count \in 0 .. BufLen
        /\ p.putPos \in 0 .. BufLen - 1
        /\ p.getPos \in 0 .. BufLen - 1
        /\ p.putPos = (p.getPos + p.count) % BufLen

\* the buffer is full and a byte has been refused
C18_Witness ==
    st.isPaused /\ st.chBufferPosn.count = BufLen /\ Len(pausedBytes) > BufLen

\* C19: between operations, when the logger is not paused the buffer is empty.
C19_EmptyWhenNotPaused == ~st.isPaused => st.chBufferPosn.count = 0

\* resume() replayed a full buffer
C19_Witness ==
    /\ op.name = "resume" /\ Resumed
    /\ Len(st.replayed) = BufLen
    /\ st.chBufferPosn.count = 0

AssemblerFields(s) ==
    <<s.msgToLog, s.firstChOnLine, s.collectLineForLog, s.curMsgLogLevel>>

\* C20: write() while paused hands nothing to Serial, MQTT, CommandSerial or
\* the TCP client, returns 0, and changes neither the assembler, the
\* configuration, the connection nor the pause state: it only adds the byte
\* to the buffer if there is room.
C20_PausedWriteFrame ==
    [][st.isPaused /\ op'.name = "write" =>
          /\ st'.serial = <<>> /\ st'.mqtt = <<>> /\ st'.cmd = <<>> /\ st'.http = <<>>
          /\ st'.retVal = 0
          /\ AssemblerFields(st') = AssemblerFields(st)
          /\ st'.wifiConnected = st.wifiConnected
          /\ st'.isPaused /\ st'.pauseStartedMs = st.pauseStartedMs
          /\ cfg' = cfg
          /\ BufferContents(st') = Prefix(Append(BufferContents(st), op'.ch), BufLen)]_vars

\* a byte was written while paused in the middle of a collected line
C20_Witness ==
    /\ op.name = "write" /\ op.wasPaused
    /\ cfg.logToMQTT /\ st.collectLineForLog /\ st.msgToLog # <<>>
    /\ st.chBufferPosn.count > 0

\* ------------------------------------------------------------------ HTTP sink
\* SpecHttp: the HTTP sink switched on and off, connects that succeed or
\* fail, lines written live and replayed after a pause that began between two
\* lines, service() ticks.
\* the connects of one replay: all succeed, all fail, or all but the first fail
Conns == {[i \in 1 .. BufLen |-> b] : b \in BOOLEAN} \cup {[i \in 1 .. BufLen |-> i = 1]}

NextHttp ==
    \/ \E ch \in FlowBytes, connOk \in BOOLEAN : Write(ch, connOk, MaxLine)
    \/ ConnClosed
    \/ st.line = <<>> /\ st.msgToLog = <<>> /\ Pause
    \/ \E conns \in Conns : Resume(conns)
    \/ Service(0, ConnsOk)
    \/ \E f \in BOOLEAN : SetHTTP(f, <<>>, <<>>, <<>>)

SpecHttp == Init /\ [][NextHttp]_vars

\* C15: each line dispatched while the HTTP sink is on gets one connect
\* attempt, made after any open connection is closed; the request is written
\* once if the connect succeeded and not at all if it failed; nothing else
\* (a line not dispatched, a line dispatched with the sink off, a service()
\* tick, any other call) makes a connect attempt.
C15_HttpProtocol ==
    /\ \A r \in LinesOfOp : Len(r.http) = IF r.collecting /\ r.ht THEN 1 ELSE 0
    /\ Len(st.http) = Cardinality({i \in 1 .. Len(st.lines) : st.lines[i].http # <<>>})
    /\ \A i \in 1 .. Len(st.http) :
          /\ Len(st.http[i].sent) = IF st.http[i].connOk THEN 1 ELSE 0
          /\ i > 1 => st.http[i].stopped = st.http[i - 1].connOk
    /\ st.http # <<>> => st.wifiConnected = st.http[Len(st.http)].connOk
    /\ op.name \notin {"write", "resume"} => st.http = <<>>

\* a connect failed after the connection of the line before was closed, and
\* nothing was written
C15_Witness ==
    \E r \in LinesOfOp :
        /\ r.ht /\ Len(r.http) = 1
        /\ r.http[1].stopped /\ ~r.http[1].connOk /\ r.http[1].sent = <<>>

\* ------------------------------------------------------------------ configuration
\* SpecCfg: the setters, before and after setup() with a ConfigBase, and
\* restarts; the bytes written are '\n'.
\* "", "t", and a topic that is one double quote
Topics == {<<>>, <<116>>, <<34>>}

\* "", "0", "1"
SerialPortStrs == {<<>>, <<48>>, <<49>>}

\* "", "x"
PortStrs == {<<>>, <<120>>}

\* a ConfigBase holding {}
PConfigs == {[null |-> FALSE, data |-> <<123, 125>>]}

NextCfg ==
    \/ \E s \in LevelStrs : SetLogLevel(s)
    \/ \E f \in BOOLEAN, t \in Topics : SetMQTT(f, t)
    \/ \E f \in BOOLEAN, s \in SerialPortStrs : SetSerial(f, s)
    \/ \E f \in BOOLEAN : SetCmdSerial(f)
    \/ \E f \in BOOLEAN, ps \in PortStrs : SetHTTP(f, <<>>, ps, <<>>)
    \/ \E pc \in PConfigs : Setup(pc)
    \/ Restart
    \/ Write(LF, TRUE, MaxLine)
    \/ Service(0, ConnsOk)

SpecCfg == Init /\ [][NextCfg]_vars

SetterNames == {"setLogLevel", "setMQTT", "setSerial", "setCmdSerial", "setHTTP"}

\* C11: a setter call that leaves the configuration as it was gives nothing
\* to setConfigData().
C11_NoWriteWhenUnchanged ==
    op.name \in SetterNames /\ ~op.changed => op.persisted = <<>>

\* the same for the setters other than setSerial
C11_ExceptSetSerial ==
    op.name \in SetterNames \ {"setSerial"} /\ ~op.changed => op.persisted = <<>>

\* C12: after a restart, formConfigStr() gives the text it gave before.
C12_RoundTrip == op.name = "restart" => formConfigStr(cfg) = op.loaded

\* the same when no string of the configuration holds a double quote: the
\* text then has the four double quotes of each of its ten pairs and no more
C12_RoundTripQuoteFree ==
    op.name = "restart" /\ Cardinality({i \in 1 .. Len(op.loaded) : op.loaded[i] = 34}) = 40
        => formConfigStr(cfg) = op.loaded

\* C16: with a ConfigBase set, a setter call that changes the configuration
\* gives setConfigData() one text, formConfigStr() of the configuration after
\* the call; no other operation gives it anything.
C16_OneWritePerChange ==
    /\ op.name \in SetterNames /\ cfg.pConfigBase /\ op.changed =>
          op.persisted = <<formConfigStr(cfg)>>
    /\ op.name \notin SetterNames => op.persisted = <<>>

\* setSerial() changed the serial port with a ConfigBase set
C16_Witness ==
    /\ op.name = "setSerial" /\ cfg.pConfigBase /\ op.changed
    /\ cfg.serialPort = 1
    /\ op.persisted = <<formConfigStr(cfg)>>

====
